---- MODULE Spec2Model ----
(***************************************************************************)
(* Model of .agents/botbox/scripts/analyze-theme-colors.py: the colour     *)
(* model (Rgb), the expected-colour derivation, the capture parser, the    *)
(* nearest-colour matcher/classifier, and the batch driver main().         *)
(*                                                                         *)
(* Python strings that the code indexes (hex colours) are sequences of     *)
(* one-character strings; dicts are functions; an exception is a record    *)
(* [ok |-> FALSE, err |-> <exception class>].  Distances are kept squared  *)
(* (math.sqrt is monotone and exact on perfect squares, so every           *)
(* comparison of the code is decided on the squares).                      *)
(***************************************************************************)
EXTENDS Integers, Sequences, FiniteSets, TLC

VARIABLES
    pc,           \* position of the running call / of main()
    arg,          \* argument of the function under analysis
    ret,          \* its result once it has returned or raised
    theme_files,  \* main(): the sorted theme files with their snapshots
    threshold,    \* args.threshold
    idx,          \* main(): index of the next theme of the for loop
    total_pass,   \* main(): total_pass
    total_fail,   \* main(): total_fail
    stdout,       \* main(): what has been printed, one record per block
    exit_status   \* process exit status, NotExited while running

vars == <<pc, arg, ret, theme_files, threshold, idx, total_pass, total_fail,
          stdout, exit_status>>

----------------------------------------------------------------------------
(* Bounds of the model *)

MaxHexLen == 7      \* longest string handed to Rgb.from_hex on its own
MaxMatches == 3     \* colour escape sequences in one capture
MaxThemes == 2      \* theme files in one batch

----------------------------------------------------------------------------
(* Generic helpers *)

Min(a, b) == IF a < b THEN a ELSE b

Abs(n) == IF n < 0 THEN -n ELSE n

\* Python int(x) on the exact quotient n/d (d > 0): truncation toward zero.
TruncDiv(n, d) == IF n >= 0 THEN n \div d ELSE -((-n) \div d)

Sign(n) == IF n > 0 THEN 1 ELSE IF n < 0 THEN -1 ELSE 0

Ok(v) == [ok |-> TRUE, val |-> v]

Raise(e) == [ok |-> FALSE, err |-> e]

----------------------------------------------------------------------------
(* Python string primitives used by Rgb.from_hex *)

HexDigits == <<"0", "1", "2", "3", "4", "5", "6", "7", "8", "9",
               "a", "b", "c", "d", "e", "f">>

UpperHexDigits == <<"A", "B", "C", "D", "E", "F">>

IsHexDigit(c) ==
    \/ \E i \in 1..16 : HexDigits[i] = c
    \/ \E i \in 1..6 : UpperHexDigits[i] = c

HexVal(c) ==
    IF \E i \in 1..16 : HexDigits[i] = c
    THEN (CHOOSE i \in 1..16 : HexDigits[i] = c) - 1
    ELSE (CHOOSE i \in 1..6 : UpperHexDigits[i] = c) + 9

\* s[lo:hi] of Python: clipped to the string, empty when lo is past the end.
Slice(s, lo, hi) == SubSeq(s, lo + 1, Min(hi, Len(s)))

RECURSIVE LStripChars(_, _)
LStripChars(s, chars) ==
    IF s # <<>> /\ Head(s) \in chars THEN LStripChars(Tail(s), chars) ELSE s

RECURSIVE RStripChars(_, _)
RStripChars(s, chars) ==
    IF s # <<>> /\ s[Len(s)] \in chars
    THEN RStripChars(SubSeq(s, 1, Len(s) - 1), chars)
    ELSE s

\* The digit part of an int literal: hex digits, single underscores between
\* digits only (one may also follow the 0x prefix).
DigitsWellFormed(d, afterPrefix) ==
    /\ d # <<>>
    /\ \A i \in 1..Len(d) : IsHexDigit(d[i]) \/ d[i] = "_"
    /\ d[Len(d)] # "_"
    /\ (d[1] = "_" => afterPrefix)
    /\ \A i \in 1..(Len(d) - 1) : ~(d[i] = "_" /\ d[i + 1] = "_")

RECURSIVE DigitsValue(_, _)
DigitsValue(d, acc) ==
    IF d = <<>> THEN acc
    ELSE IF Head(d) = "_" THEN DigitsValue(Tail(d), acc)
    ELSE DigitsValue(Tail(d), 16 * acc + HexVal(Head(d)))

Whitespace == {" ", "\t", "\n", "\r"}

\* The literal with its sign, if any, taken off.
Unsigned(t) == IF t # <<>> /\ Head(t) \in {"+", "-"} THEN Tail(t) ELSE t

HasPrefix(u) == Len(u) >= 2 /\ u[1] = "0" /\ u[2] \in {"x", "X"}

IntOfDigits(d, prefixed, negative) ==
    IF DigitsWellFormed(d, prefixed)
    THEN Ok((IF negative THEN -1 ELSE 1) * DigitsValue(d, 0))
    ELSE Raise("ValueError")

IntOfUnsigned(u, negative) ==
    IntOfDigits(IF HasPrefix(u) THEN SubSeq(u, 3, Len(u)) ELSE u,
                HasPrefix(u), negative)

\* int(s, 16): surrounding whitespace, an optional sign, an optional 0x
\* prefix, then the digits; anything else raises ValueError.
IntOfStripped(t) == IntOfUnsigned(Unsigned(t), t # <<>> /\ Head(t) = "-")

PyIntBase16(s) ==
    IntOfStripped(RStripChars(LStripChars(s, Whitespace), Whitespace))

----------------------------------------------------------------------------
(* class Rgb *)

Rgb(r, g, b) == [r |-> r, g |-> g, b |-> b]

\* The three int(h[i:i+2], 16) of line 23, and the Rgb built from them.
RgbOfChannels(ch) ==
    IF ch[1].ok /\ ch[2].ok /\ ch[3].ok
    THEN Ok(Rgb(ch[1].val, ch[2].val, ch[3].val))
    ELSE Raise("ValueError")

HexChannels(s) == [i \in 1..3 |-> PyIntBase16(Slice(s, 2 * i - 2, 2 * i))]

\* Rgb.from_hex
from_hex(h) == RgbOfChannels(HexChannels(LStripChars(h, {"#"})))

\* The interpolation taken from the other end: y + (x - y) * t.
LerpChannelFromOther(x, y, tn, td) == TruncDiv(y * td + (x - y) * tn, td)

\* The float expression x + (y - x) * t with t = tn/td truncated by int().
\* For t in {0.05, 0.15, 0.3} and channels in -15..255 the IEEE-754 double
\* result truncates to the same integer as the exact quotient.
LerpChannel(x, y, tn, td) == TruncDiv(x * td + (y - x) * tn, td)

\* Rgb.lerp
lerp(self, other, tn, td) ==
    Rgb(LerpChannel(self.r, other.r, tn, td),
        LerpChannel(self.g, other.g, tn, td),
        LerpChannel(self.b, other.b, tn, td))

\* Where the exact value of s*alpha + b*(1-alpha) is a non-zero integer the
\* double sum can fall just short of it, and int() then truncates to the
\* integer one nearer zero.  The tables list every such pair of channels in
\* -15..255 (the range from_hex can produce), computed in IEEE-754 doubles.
\* alpha = 0.05: exact value integral iff s = b mod 20; entry s + 16 is a
\* bit mask over k, for b = (least value >= -15 congruent to s) + 20k.
BlendShort05 == <<
     0, 219, 14562, 29, 16134, 0, 201, 15602, 13, 16135, 0, 108, 7283,
     10, 8064, 0, 108, 7280, 11, 8066, 0, 219, 14562, 13, 16134, 0,
     201, 15602, 13, 16131, 0, 108, 7281, 11, 8064, 0, 108, 7280, 10,
     8066, 0, 219, 14560, 13, 16132, 0, 201, 15602, 9, 16129, 0, 109,
     7281, 10, 8064, 0, 108, 7280, 10, 8066, 0, 201, 14560, 9, 16133,
     0, 201, 15602, 9, 16129, 0, 109, 7280, 8, 8064, 0, 108, 7280, 8,
     8066, 0, 201, 14560, 9, 16133, 0, 201, 15475, 9, 16129, 0, 108,
     7280, 8, 8064, 0, 108, 7280, 8, 8066, 0, 200, 14561, 9, 16133, 0,
     73, 15473, 9, 16129, 0, 96, 7280, 8, 8064, 0, 96, 7280, 0, 8066,
     0, 193, 14561, 9, 16129, 0, 65, 15473, 9, 16128, 0, 96, 7280, 8,
     8064, 0, 96, 7280, 0, 8066, 0, 193, 14561, 9, 16129, 0, 65,
     15473, 8, 16128, 0, 96, 7280, 8, 8064, 0, 96, 7280, 0, 8066, 0,
     193, 14561, 9, 16129, 0, 65, 15472, 8, 16128, 0, 96, 7280, 8,
     8064, 0, 96, 7280, 0, 8064, 0, 193, 14432, 9, 16129, 0, 64,
     15472, 8, 16128, 0, 96, 7280, 8, 8064, 0, 96, 7280, 0, 8064, 0,
     65, 14432, 9, 16129, 0, 64, 15360, 8, 16128, 0, 96, 7168, 0,
     8064, 0, 96, 7168, 0, 8064, 0, 65, 14337, 9, 16128, 0, 64, 15360,
     8, 16128, 0, 96, 7168, 0, 8064, 0, 96, 7168, 0, 8064, 0, 65,
     14337, 8, 16128, 0, 64, 15360, 8, 16128, 0, 96, 7168, 0, 8064, 0,
     96, 7168, 0, 8064, 0, 65, 14336, 8, 16128, 0, 64, 15360, 8,
     16128, 0
    >>

\* alpha = 0.08: the pairs <<s, b>>.
BlendShort08 == {
    <<24, -1>>, <<48, -2>>, <<71, -4>>, <<72, -3>>, <<96, -4>>,
    <<116, -9>>, <<117, -8>>, <<118, -7>>, <<119, -6>>, <<120, -5>>,
    <<141, -9>>, <<142, -8>>, <<143, -7>>, <<144, -6>>, <<145, -5>>,
    <<167, -8>>, <<168, -7>>, <<169, -6>>, <<192, -8>>, <<211, -14>>,
    <<213, -12>>, <<215, -10>>, <<236, -14>>, <<238, -12>>, <<240, -10>> }

RECURSIVE Pow2(_)
Pow2(k) == IF k = 0 THEN 1 ELSE 2 * Pow2(k - 1)

FallsShort(s, b, an, ad) ==
    /\ s \in (-15)..255
    /\ b \in (-15)..255
    /\ IF an = 5 /\ ad = 100
       THEN /\ (s - b) % 20 = 0
            /\ (BlendShort05[s + 16]
                    \div Pow2((b - (((s + 15) % 20) - 15)) \div 20)) % 2 = 1
       ELSE an = 8 /\ ad = 100 /\ <<s, b>> \in BlendShort08

\* One channel of blend_over with alpha = an/ad.
BlendChannel(s, b, an, ad) ==
    TruncDiv(s * an + b * (ad - an), ad)
    - (IF FallsShort(s, b, an, ad) THEN Sign(s * an + b * (ad - an)) ELSE 0)

\* Rgb.blend_over
blend_over(self, bg, an, ad) ==
    Rgb(BlendChannel(self.r, bg.r, an, ad),
        BlendChannel(self.g, bg.g, an, ad),
        BlendChannel(self.b, bg.b, an, ad))

\* Rgb.distance, squared
distance2(self, other) ==
    (self.r - other.r) * (self.r - other.r)
    + (self.g - other.g) * (self.g - other.g)
    + (self.b - other.b) * (self.b - other.b)

----------------------------------------------------------------------------
(* derive_expected_colors *)

\* Python None (a missing "overrides" entry, a JSON null).
None == [py_none |-> TRUE]

\* Truth value of a dict or of a str-or-None.
Truthy(v) == v # None /\ DOMAIN v # {}

SeedKeys == <<"background", "foreground", "primary", "muted", "success",
              "warning", "error">>

\* The dict literal of lines 67-90.
BaseExpected(bg, fg, primary, muted, success, warning, error) ==
    ( "background" :> bg ) @@ ( "foreground" :> fg ) @@
    ( "primary" :> primary ) @@ ( "muted" :> muted ) @@
    ( "success" :> success ) @@ ( "warning" :> warning ) @@
    ( "error" :> error ) @@
    ( "panel_bg" :> lerp(bg, fg, 5, 100) ) @@
    ( "selection_bg" :> blend_over(primary, bg, 25, 100) ) @@
    ( "border" :> lerp(bg, fg, 15, 100) ) @@
    ( "diff.added" :> success ) @@
    ( "diff.removed" :> error ) @@
    ( "diff.context" :> lerp(fg, muted, 15, 100) ) @@
    ( "diff.hunk_header" :> muted ) @@
    ( "diff.highlight_added" :> lerp(success, primary, 3, 10) ) @@
    ( "diff.highlight_removed" :> lerp(error, fg, 15, 100) ) @@
    ( "diff.added_bg" :> blend_over(success, bg, 8, 100) ) @@
    ( "diff.removed_bg" :> blend_over(error, bg, 8, 100) ) @@
    ( "diff.context_bg" :> bg ) @@
    ( "diff.line_number" :> muted ) @@
    ( "diff.added_ln_bg" :> blend_over(success, bg, 5, 100) ) @@
    ( "diff.removed_ln_bg" :> blend_over(error, bg, 5, 100) )

override_map ==
    ( "panelBg" :> "panel_bg" ) @@
    ( "selectionBg" :> "selection_bg" ) @@
    ( "diffAdded" :> "diff.added" ) @@
    ( "diffRemoved" :> "diff.removed" ) @@
    ( "diffHighlightAdded" :> "diff.highlight_added" ) @@
    ( "diffHighlightRemoved" :> "diff.highlight_removed" ) @@
    ( "diffAddedBg" :> "diff.added_bg" ) @@
    ( "diffRemovedBg" :> "diff.removed_bg" )

SyntaxKeys == <<"syntaxKeyword", "syntaxFunction", "syntaxTypeName",
                "syntaxString", "syntaxNumber", "syntaxComment",
                "syntaxOperator", "syntaxPunctuation", "syntaxVariable",
                "syntaxConstant", "syntaxAttribute">>

\* The key built from the role instead of the override's name.
SyntaxNameByRole(key) ==
    IF key = "syntaxKeyword" THEN "syntax.keyword"
    ELSE IF key = "syntaxString" THEN "syntax.string"
    ELSE "syntax." \o key

\* f"syntax.{key}"
SyntaxName(key) == "syntax." \o key

\* The keys of keySet that the two override loops act on.
ActiveOverrides(overrides, keySet) ==
    {k \in keySet : k \in DOMAIN overrides /\ Truthy(overrides[k])}

\* Rgb.from_hex(overrides[key])
OverrideColor(overrides, key) == from_hex(overrides[key])

\* The map after the loops over the active keys ui of override_map and the
\* active syntax keys syn.
Overridden(expected, overrides, ui, syn) ==
    IF \E k \in ui \cup syn : ~OverrideColor(overrides, k).ok
    THEN Raise("ValueError")
    ELSE Ok([n \in DOMAIN expected \cup {SyntaxName(k) : k \in syn} |->
               IF \E k \in syn \cup ui :
                      n = (IF k \in syn THEN SyntaxName(k) ELSE override_map[k])
               THEN OverrideColor(
                        overrides,
                        CHOOSE k \in syn \cup ui :
                            n = (IF k \in syn THEN SyntaxName(k)
                                 ELSE override_map[k])).val
               ELSE expected[n]])

\* Lines 103-122: the expected map after both override loops.
ApplyOverrides(expected, overrides) ==
    IF ~Truthy(overrides) THEN Ok(expected)
    ELSE Overridden(expected, overrides,
                    ActiveOverrides(overrides, DOMAIN override_map),
                    ActiveOverrides(overrides,
                        {SyntaxKeys[i] : i \in 1..Len(SyntaxKeys)}))

\* seeds[key] followed by Rgb.from_hex, lines 59-65.
SeedColor(seeds, key) ==
    IF key \in DOMAIN seeds THEN from_hex(seeds[key]) ELSE Raise("KeyError")

\* The first of the seven lookups that raises.
FirstBad(parsed) ==
    CHOOSE i \in 1..Len(SeedKeys) :
        ~parsed[i].ok /\ \A j \in 1..(i - 1) : parsed[j].ok

\* Lines 67-124 on the seven parsed seeds, the whole map with the key
\* "diff.added_ln_bg" written twice in the dict literal, so that its last
\* entry overwrites it instead of adding "diff.removed_ln_bg".
DeriveFromParsedDupKey(parsed, overrides) ==
    IF \E i \in 1..Len(SeedKeys) : ~parsed[i].ok
    THEN Raise(parsed[FirstBad(parsed)].err)
    ELSE ApplyOverrides(
             LET base == BaseExpected(parsed[1].val, parsed[2].val,
                                      parsed[3].val, parsed[4].val,
                                      parsed[5].val, parsed[6].val,
                                      parsed[7].val)
             IN  [x \in DOMAIN base \ {"diff.removed_ln_bg"} |-> base[x]],
             overrides)

\* Lines 67-124 on the seven parsed seeds.
DeriveFromParsed(parsed, overrides) ==
    IF \E i \in 1..Len(SeedKeys) : ~parsed[i].ok
    THEN Raise(parsed[FirstBad(parsed)].err)
    ELSE ApplyOverrides(
             BaseExpected(parsed[1].val, parsed[2].val, parsed[3].val,
                          parsed[4].val, parsed[5].val, parsed[6].val,
                          parsed[7].val),
             overrides)

derive_expected_colors(seeds, overrides) ==
    DeriveFromParsed([i \in 1..Len(SeedKeys) |->
                         SeedColor(seeds, SeedKeys[i])],
                     overrides)

----------------------------------------------------------------------------
(* extract_rendered_colors and find_nearest *)

\* A capture is the sequence of matches of (38|48);2;(\d+);(\d+);(\d+) in
\* the file, each [kind, rgb].  Returns the fg and bg sets.
extract_rendered_colors(data) ==
    [fg |-> {data[i].rgb : i \in {j \in 1..Len(data) : data[j].kind = "38"}},
     bg |-> {data[i].rgb : i \in {j \in 1..Len(data) : data[j].kind # "38"}}]

\* float("inf") as a squared distance; real squared distances are >= 0.
Inf == -1

\* d < e on squared distances
DistLess(d, e) == d # Inf /\ (e = Inf \/ d < e)

\* dist > t, for a squared distance and an integral threshold t
DistAbove(d, t) == d = Inf \/ t < 0 \/ d > t * t

\* best_dist = d written outside the if: the distance of the last candidate.
RECURSIVE NearestLoopLastDist(_, _, _, _)
NearestLoopLastDist(color, candidates, best, best_dist) ==
    IF candidates = <<>> THEN [nearest |-> best, dist |-> best_dist]
    ELSE LET c == Head(candidates)
             d == distance2(color, c)
         IN  NearestLoopLastDist(color, Tail(candidates),
                                 IF DistLess(d, best_dist) THEN c ELSE best, d)

\* The loop of find_nearest over the candidates in iteration order.
RECURSIVE NearestLoop(_, _, _, _)
NearestLoop(color, candidates, best, best_dist) ==
    IF candidates = <<>> THEN [nearest |-> best, dist |-> best_dist]
    ELSE LET c == Head(candidates)
             d == distance2(color, c)
         IN  IF DistLess(d, best_dist)
             THEN NearestLoop(color, Tail(candidates), c, d)
             ELSE NearestLoop(color, Tail(candidates), best, best_dist)

\* candidates: the set as the sequence of its iteration order
find_nearest(color, candidates) == NearestLoop(color, candidates, None, Inf)

\* The iteration orders a set can have.
Orderings(S) ==
    {o \in [1..Cardinality(S) -> S] : \A i, j \in 1..Cardinality(S) :
                                          i # j => o[i] # o[j]}

----------------------------------------------------------------------------
(* analyze_theme *)

core_keys == {"background", "foreground", "panel_bg", "muted",
              "diff.context_bg"}

expected_keys == {"diff.added_bg", "diff.removed_bg", "diff.added",
                  "diff.removed", "diff.context", "diff.line_number",
                  "success", "error"}

BgSubstrings == <<"background", "panel_bg", "added_bg", "removed_bg",
                  "context_bg", "ln_bg", "selection_bg">>

\* x in k, for the substrings x of the list above and the names k the
\* expected map can hold.
Contains(k, x) ==
    k \in CASE x = "background" -> {"background"}
            [] x = "panel_bg" -> {"panel_bg"}
            [] x = "added_bg" -> {"diff.added_bg"}
            [] x = "removed_bg" -> {"diff.removed_bg"}
            [] x = "context_bg" -> {"diff.context_bg"}
            [] x = "ln_bg" -> {"diff.added_ln_bg", "diff.removed_ln_bg"}
            [] x = "selection_bg" -> {"selection_bg"}
            [] OTHER -> {}

bg_expected_keys(expected) ==
    {k \in DOMAIN expected :
        \E i \in 1..Len(BgSubstrings) : Contains(k, BgSubstrings[i])}

\* Every name the expected map can hold, in the order of sorted().
SortedNames == <<
    "background", "border", "diff.added", "diff.added_bg",
    "diff.added_ln_bg", "diff.context", "diff.context_bg",
    "diff.highlight_added", "diff.highlight_removed", "diff.hunk_header",
    "diff.line_number", "diff.removed", "diff.removed_bg",
    "diff.removed_ln_bg", "error", "foreground", "muted", "panel_bg",
    "primary", "selection_bg", "success", "syntax.syntaxAttribute",
    "syntax.syntaxComment", "syntax.syntaxConstant", "syntax.syntaxFunction",
    "syntax.syntaxKeyword", "syntax.syntaxNumber", "syntax.syntaxOperator",
    "syntax.syntaxPunctuation", "syntax.syntaxString",
    "syntax.syntaxTypeName", "syntax.syntaxVariable", "warning">>

\* Lines 237-240: the search in the set of the name's role.
Primary(name, color, bgKeys, order) ==
    IF name \in bgKeys THEN find_nearest(color, order.bg)
    ELSE find_nearest(color, order.fg)

Found(m, primary) ==
    [nearest |-> m.nearest, dist |-> m.dist, primary_dist |-> primary.dist]

\* The matching without the fallback search.
WithFallbackIgnored(primary, fallback, thr) == Found(primary, primary)

\* Lines 243-246: the fallback over all_rendered replaces the primary result
\* when that is above the threshold and the fallback is strictly nearer.
WithFallback(primary, fallback, thr) ==
    IF DistAbove(primary.dist, thr) /\ DistLess(fallback.dist, primary.dist)
    THEN Found(fallback, primary)
    ELSE Found(primary, primary)

\* Lines 237-246; order holds the iteration orders of the three sets.
Match(name, color, bgKeys, order, thr) ==
    WithFallback(Primary(name, color, bgKeys, order),
                 find_nearest(color, order.all), thr)

\* Line 250
Severity(name) ==
    IF name \in core_keys THEN "CORE"
    ELSE IF name \in expected_keys THEN "WANT" ELSE "INFO"

\* The branch taken at lines 252-261
Classify(dist, thr) ==
    IF dist = 0 THEN "exact"
    ELSE IF ~DistAbove(dist, thr) THEN "close" ELSE "miss"

Line(kind, severity, name, color, m) ==
    [kind |-> kind, severity |-> severity, name |-> name,
     expected |-> color, nearest |-> m.nearest, dist |-> m.dist]

\* passed = False set on every miss, not only under is_core.
FailsThemeOnAnyMiss(cls, is_core) == cls = "miss"

\* Lines 262-264: the miss that sets passed = False
FailsTheme(cls, is_core) == cls = "miss" /\ is_core

\* Lines 248-280 on the loop's locals st, for the match m of class cls.
Tally(st, name, color, m, cls, severity, is_core) ==
    [passed |-> IF FailsTheme(cls, is_core) THEN FALSE ELSE st.passed,
     found |-> IF cls = "exact" THEN st.found + 1 ELSE st.found,
     close_count |-> IF cls = "close" THEN st.close_count + 1
                     ELSE st.close_count,
     missing_core |-> IF cls = "miss" /\ is_core
                      THEN st.missing_core + 1 ELSE st.missing_core,
     missing_optional |-> IF cls = "miss" /\ ~is_core
                          THEN st.missing_optional + 1
                          ELSE st.missing_optional,
     messages |->
         IF (cls = "close" /\ DistAbove(m.dist, 5)) \/ cls = "miss"
         THEN Append(st.messages,
                     Line(IF cls = "miss" THEN "MISS" ELSE "CLOSE",
                          severity, name, color, m))
         ELSE st.messages,
     verdicts |-> (name :> [nearest |-> m.nearest, dist |-> m.dist,
                            primary_dist |-> m.primary_dist, class |-> cls,
                            severity |-> severity])
                  @@ st.verdicts]

Classified(st, name, color, m, thr) ==
    Tally(st, name, color, m, Classify(m.dist, thr), Severity(name),
          name \in core_keys)

\* One iteration of the loop of lines 235-280 on the loop's locals.
LoopBody(st, name, color, bgKeys, order, thr) ==
    Classified(st, name, color, Match(name, color, bgKeys, order, thr), thr)

RECURSIVE MatchLoop(_, _, _, _, _, _)
MatchLoop(st, i, expected, bgKeys, order, thr) ==
    IF i > Len(SortedNames) THEN st
    ELSE MatchLoop(IF SortedNames[i] \in DOMAIN expected
                   THEN LoopBody(st, SortedNames[i], expected[SortedNames[i]],
                                 bgKeys, order, thr)
                   ELSE st,
                   i + 1, expected, bgKeys, order, thr)

\* Lines 282-290: the locals at return; messages has the summary line first.
Report(st, expected) ==
    [stage |-> "matched", passed |-> st.passed,
     messages |-> <<[kind |-> IF st.passed THEN "PASS" ELSE "FAIL",
                     found |-> st.found,
                     total |-> Cardinality(DOMAIN expected),
                     close_count |-> st.close_count,
                     missing_core |-> st.missing_core,
                     missing_optional |-> st.missing_optional]>>
                  \o st.messages,
     found |-> st.found, close_count |-> st.close_count,
     missing_core |-> st.missing_core,
     missing_optional |-> st.missing_optional,
     verdicts |-> st.verdicts, expected |-> expected]

\* Lines 229-290
MatchStage(expected, order, thr) ==
    Report(MatchLoop([passed |-> TRUE, found |-> 0, close_count |-> 0,
                      missing_core |-> 0, missing_optional |-> 0,
                      messages |-> <<>>, verdicts |-> <<>>],
                     1, expected, bg_expected_keys(expected), order, thr),
           expected)

\* Every early return written as the legacy skip's "return True, messages".
EarlyReturnTrue(stage, passed, text) ==
    [stage |-> stage, passed |-> TRUE, messages |-> <<[kind |-> text]>>]

EarlyReturn(stage, passed, text) ==
    [stage |-> stage, passed |-> passed, messages |-> <<[kind |-> text]>>]

\* all_rendered, line 184
AllRendered(rendered) == rendered.fg \cup rendered.bg

\* The iteration orders of fg_rendered, bg_rendered and all_rendered.
OrdersOf(rendered) ==
    [fg : Orderings(rendered.fg), bg : Orderings(rendered.bg),
     all : Orderings(AllRendered(rendered))]

IterationOrders(snapshot) == OrdersOf(extract_rendered_colors(snapshot.data))

\* Lines 176-290, on the result of derive_expected_colors.
AfterDerive(expected, snapshot, thr, order) ==
    IF ~expected.ok THEN expected
    ELSE IF ~snapshot.exists
    THEN Ok(EarlyReturn("no_snapshot", FALSE, "FAIL: snapshot not found"))
    ELSE IF AllRendered(extract_rendered_colors(snapshot.data)) = {}
    THEN Ok(EarlyReturn("no_colors", FALSE,
                        "FAIL: no colors found in snapshot"))
    ELSE Ok(MatchStage(expected.val, order, thr))

\* dict.get: None for an absent key
Get(d, key) == IF key \in DOMAIN d THEN d[key] ELSE None

\* theme_data: the loaded JSON object; snapshot: [exists, data], the file at
\* snapshot_path; order: an element of IterationOrders(snapshot).
analyze_theme(theme_data, snapshot, thr, order) ==
    IF "seeds" \notin DOMAIN theme_data
    THEN Ok(EarlyReturn("skip", TRUE, "SKIP: legacy format (no seeds)"))
    ELSE AfterDerive(derive_expected_colors(theme_data["seeds"],
                                            Get(theme_data, "overrides")),
                     snapshot, thr, order)

----------------------------------------------------------------------------
(* main *)

\* Line 339 with the two exit codes swapped.
ExitCodeSwapped(fails) == IF fails = 0 THEN 1 ELSE 0

\* Line 339
ExitCode(fails) == IF fails = 0 THEN 0 ELSE 1

\* --threshold default, line 302
DefaultThreshold == 30

----------------------------------------------------------------------------
(* Inputs *)

HexAlphabet == {"#", "1", "F", "g", "-"}

\* Every string over HexAlphabet of at most MaxHexLen characters.
HexStrings == UNION {[1..n -> HexAlphabet] : n \in 0..MaxHexLen}

\* Hex colour strings, as sequences of characters.
BG == <<"#", "1", "a", "1", "a", "1", "a">>

FG == <<"#", "e", "0", "e", "0", "e", "0">>

PRIMARY == <<"#", "5", "6", "9", "c", "d", "6">>

MUTED == <<"#", "6", "a", "6", "a", "6", "a">>

SUCCESS == <<"#", "4", "e", "c", "9", "b", "0">>

WARNING == <<"#", "d", "c", "d", "c", "a", "a">>

ERROR == <<"#", "f", "4", "4", "7", "4", "7">>

\* a colour written without the leading '#'
BARE == <<"5", "6", "9", "c", "d", "6">>

\* a non-hex character in the blue channel
BADHEX == <<"#", "6", "a", "6", "a", "6", "g">>

\* The seeds of the worked example of the specification.
ExampleSeeds ==
    ( "background" :> BG ) @@
    ( "foreground" :> FG ) @@
    ( "primary" :> PRIMARY ) @@
    ( "muted" :> MUTED ) @@
    ( "success" :> SUCCESS ) @@
    ( "warning" :> WARNING ) @@
    ( "error" :> ERROR )

Restrict(f, S) == [x \in S |-> f[x]]

SeedKeySet == {SeedKeys[i] : i \in 1..Len(SeedKeys)}

\* Seed sets handed to derive_expected_colors: the example with three of
\* its keys drawn from two well-formed colours (one written without '#'),
\* a malformed colour, and a missing key.
SeedSets ==
    {[ExampleSeeds EXCEPT !["background"] = b, !["primary"] = p,
                          !["error"] = e] :
        b \in {BG, BARE}, p \in {PRIMARY, BARE}, e \in {ERROR, BARE}}
    \cup {[ExampleSeeds EXCEPT !["muted"] = BADHEX],
          Restrict(ExampleSeeds, SeedKeySet \ {"error"})}

OverrideKeysUsed == {"panelBg", "syntaxKeyword", "syntaxString"}

OverrideValues == {None, <<>>, BG, FG, BADHEX}

OverrideSets ==
    {None} \cup UNION {[K -> OverrideValues] : K \in SUBSET OverrideKeysUsed}

DeriveInputs == [seeds : SeedSets, overrides : OverrideSets]

\* Colours a capture can hold: the example's background and foreground, and
\* a grey as far from the example's panel_bg as the background.
Palette == {Rgb(26, 26, 26), Rgb(224, 224, 224), Rgb(44, 44, 44)}

Tokens == [kind : {"38", "48"}, rgb : Palette]

\* One capture per set of at most MaxMatches escape sequences.
Captures ==
    {CHOOSE o \in Orderings(S) : TRUE :
        S \in {T \in SUBSET Tokens : Cardinality(T) <= MaxMatches}}

Snapshots ==
    {[exists |-> FALSE, data |-> <<>>]}
    \cup {[exists |-> TRUE, data |-> d] : d \in Captures}

\* A theme whose CORE colours are its background and foreground only.
CompactTheme ==
    ( "seeds" :> [ExampleSeeds EXCEPT !["muted"] = FG] ) @@
    ( "overrides" :> ( "panelBg" :> BG ) @@ ( "syntaxKeyword" :> FG )
                     @@ ( "diffAdded" :> <<>> ) )

ThemeDataPool ==
    { ( "seeds" :> ExampleSeeds ),
      CompactTheme,
      ( "overrides" :> ( "panelBg" :> BG ) ),
      ( "seeds" :> [ExampleSeeds EXCEPT !["muted"] = BADHEX] ),
      ( "seeds" :> Restrict(ExampleSeeds, SeedKeySet \ {"error"}) ),
      ( "seeds" :> ExampleSeeds ) @@
          ( "overrides" :> ( "syntaxString" :> BADHEX ) ) }

Thresholds == {-1, 0, DefaultThreshold}

AnalyzeInputs == [theme_data : ThemeDataPool, snapshot : Snapshots]

\* The capture of the worked example: 38;2;26;26;26 and 48;2;26;26;26.
ExampleSnapshot ==
    [exists |-> TRUE,
     data |-> <<[kind |-> "38", rgb |-> Rgb(26, 26, 26)],
                [kind |-> "48", rgb |-> Rgb(26, 26, 26)]>>]

\* A capture under which the compact theme passes.
PassingSnapshot ==
    [exists |-> TRUE,
     data |-> <<[kind |-> "48", rgb |-> Rgb(26, 26, 26)],
                [kind |-> "38", rgb |-> Rgb(224, 224, 224)]>>]

EmptySnapshot == [exists |-> TRUE, data |-> <<>>]

MissingSnapshot == [exists |-> FALSE, data |-> <<>>]

\* Theme files main() can meet, [data, snapshot]: a passing theme, a CORE
\* miss, an empty capture, a missing snapshot, a legacy theme, and three
\* themes whose derivation raises.
ThemeFilePool ==
    {[data |-> CompactTheme, snapshot |-> PassingSnapshot],
     [data |-> ( "seeds" :> ExampleSeeds ), snapshot |-> ExampleSnapshot],
     [data |-> ( "seeds" :> ExampleSeeds ), snapshot |-> EmptySnapshot],
     [data |-> ( "seeds" :> ExampleSeeds ), snapshot |-> MissingSnapshot],
     [data |-> ( "overrides" :> ( "panelBg" :> BG ) ),
      snapshot |-> MissingSnapshot],
     [data |-> ( "seeds" :> [ExampleSeeds EXCEPT !["muted"] = BADHEX] ),
      snapshot |-> PassingSnapshot],
     [data |-> ( "seeds" :> Restrict(ExampleSeeds, SeedKeySet \ {"error"}) ),
      snapshot |-> PassingSnapshot],
     [data |-> ( "seeds" :> ExampleSeeds ) @@
                   ( "overrides" :> ( "syntaxString" :> BADHEX ) ),
      snapshot |-> ExampleSnapshot]}

Batches == UNION {[1..n -> ThemeFilePool] : n \in 0..MaxThemes}

----------------------------------------------------------------------------
(* Specification of Rgb.from_hex on its own *)

Idle ==
    /\ theme_files = <<>>
    /\ threshold = DefaultThreshold
    /\ idx = 0
    /\ total_pass = 0
    /\ total_fail = 0
    /\ stdout = <<>>
    /\ exit_status = None

InitHex ==
    /\ pc = "call"
    /\ arg \in HexStrings
    /\ ret = None
    /\ Idle

FromHexReturns ==
    /\ pc = "call"
    /\ ret' = from_hex(arg)
    /\ ret'.ok
    /\ pc' = "returned"
    /\ UNCHANGED <<arg, theme_files, threshold, idx, total_pass, total_fail,
                   stdout, exit_status>>

FromHexRaises ==
    /\ pc = "call"
    /\ ret' = from_hex(arg)
    /\ ~ret'.ok
    /\ pc' = "raised"
    /\ UNCHANGED <<arg, theme_files, threshold, idx, total_pass, total_fail,
                   stdout, exit_status>>

NextHex == FromHexReturns \/ FromHexRaises

SpecHex == InitHex /\ [][NextHex]_vars

----------------------------------------------------------------------------
(* Specification of derive_expected_colors on its own *)

InitDerive ==
    /\ pc = "call"
    /\ arg \in DeriveInputs
    /\ ret = None
    /\ Idle

DeriveReturns ==
    /\ pc = "call"
    /\ ret' = derive_expected_colors(arg.seeds, arg.overrides)
    /\ ret'.ok
    /\ pc' = "returned"
    /\ UNCHANGED <<arg, theme_files, threshold, idx, total_pass, total_fail,
                   stdout, exit_status>>

DeriveRaises ==
    /\ pc = "call"
    /\ ret' = derive_expected_colors(arg.seeds, arg.overrides)
    /\ ~ret'.ok
    /\ pc' = "raised"
    /\ UNCHANGED <<arg, theme_files, threshold, idx, total_pass, total_fail,
                   stdout, exit_status>>

NextDerive == DeriveReturns \/ DeriveRaises

SpecDerive == InitDerive /\ [][NextDerive]_vars

----------------------------------------------------------------------------
(* Specification of analyze_theme on its own *)

InitAnalyze ==
    /\ pc = "call"
    /\ arg \in AnalyzeInputs
    /\ ret = None
    /\ theme_files = <<>>
    /\ threshold \in Thresholds
    /\ idx = 0
    /\ total_pass = 0
    /\ total_fail = 0
    /\ stdout = <<>>
    /\ exit_status = None

AnalyzeReturns ==
    /\ pc = "call"
    /\ \E order \in IterationOrders(arg.snapshot) :
          ret' = analyze_theme(arg.theme_data, arg.snapshot, threshold, order)
    /\ ret'.ok
    /\ pc' = "returned"
    /\ UNCHANGED <<arg, theme_files, threshold, idx, total_pass, total_fail,
                   stdout, exit_status>>

AnalyzeRaises ==
    /\ pc = "call"
    /\ \E order \in IterationOrders(arg.snapshot) :
          ret' = analyze_theme(arg.theme_data, arg.snapshot, threshold, order)
    /\ ~ret'.ok
    /\ pc' = "raised"
    /\ UNCHANGED <<arg, theme_files, threshold, idx, total_pass, total_fail,
                   stdout, exit_status>>

NextAnalyze == AnalyzeReturns \/ AnalyzeRaises

SpecAnalyze == InitAnalyze /\ [][NextAnalyze]_vars

----------------------------------------------------------------------------
(* Specification of main(): one batch run *)

Init ==
    /\ pc = "main"
    /\ arg = None
    /\ ret = None
    /\ theme_files \in Batches
    /\ threshold \in Thresholds
    /\ idx = 0
    /\ total_pass = 0
    /\ total_fail = 0
    /\ stdout = <<>>
    /\ exit_status = None

\* Lines 310-313: no theme files
NoThemeFiles ==
    /\ pc = "main"
    /\ theme_files = <<>>
    /\ stdout' = Append(stdout, [kind |-> "No theme files found"])
    /\ exit_status' = 1
    /\ pc' = "exited"
    /\ UNCHANGED <<arg, ret, theme_files, threshold, idx, total_pass,
                   total_fail>>

\* Lines 310-316: theme files found, the loop starts
EnterLoop ==
    /\ pc = "main"
    /\ theme_files # <<>>
    /\ idx' = 1
    /\ total_pass' = 0
    /\ total_fail' = 0
    /\ pc' = "loop"
    /\ UNCHANGED <<arg, ret, theme_files, threshold, stdout, exit_status>>

\* Lines 329-336: the report r of theme idx is printed and counted.
Count(r) ==
    /\ r.ok
    /\ stdout' = Append(stdout, [kind |-> "theme", theme |-> idx,
                                 ok |-> r.val.passed,
                                 messages |-> r.val.messages])
    /\ total_pass' = IF r.val.passed THEN total_pass + 1 ELSE total_pass
    /\ total_fail' = IF r.val.passed THEN total_fail ELSE total_fail + 1

\* The exception r leaves main(): the traceback is printed.
Traceback(r) ==
    /\ ~r.ok
    /\ stdout' = Append(stdout, [kind |-> "traceback", theme |-> idx,
                                 err |-> r.err])

\* Lines 318-336: one iteration in which analyze_theme returns
ThemeReturns ==
    /\ pc = "loop"
    /\ idx <= Len(theme_files)
    /\ \E order \in IterationOrders(theme_files[idx].snapshot) :
          Count(analyze_theme(theme_files[idx].data,
                              theme_files[idx].snapshot, threshold, order))
    /\ idx' = idx + 1
    /\ UNCHANGED <<pc, arg, ret, theme_files, threshold, exit_status>>

\* Lines 318-328: analyze_theme raises; nothing catches it, the interpreter
\* prints the traceback and the process exits with status 1.
ThemeRaises ==
    /\ pc = "loop"
    /\ idx <= Len(theme_files)
    /\ \E order \in IterationOrders(theme_files[idx].snapshot) :
          Traceback(analyze_theme(theme_files[idx].data,
                                  theme_files[idx].snapshot, threshold,
                                  order))
    /\ exit_status' = 1
    /\ pc' = "exited"
    /\ UNCHANGED <<arg, ret, theme_files, threshold, idx, total_pass,
                   total_fail>>

\* Lines 338-339
PrintSummary ==
    /\ pc = "loop"
    /\ idx > Len(theme_files)
    /\ stdout' = Append(stdout, [kind |-> "summary", passed |-> total_pass,
                                 failed |-> total_fail])
    /\ exit_status' = ExitCode(total_fail)
    /\ pc' = "exited"
    /\ UNCHANGED <<arg, ret, theme_files, threshold, idx, total_pass,
                   total_fail>>

Next == NoThemeFiles \/ EnterLoop \/ ThemeReturns \/ ThemeRaises
        \/ PrintSummary

Spec == Init /\ [][Next]_vars

----------------------------------------------------------------------------
(* Properties of main(), checked under Spec *)

ThemeBlocks == {j \in 1..Len(stdout) : stdout[j].kind = "theme"}

\* Theme i was analysed and its report printed.
Reported(i) == \E j \in ThemeBlocks : stdout[j].theme = i

\* analyze_theme returned failed for some theme of the run.
SomeThemeReturnedFailed == \E j \in ThemeBlocks : ~stdout[j].ok

\* analyze_theme raised for some theme of the run.
SomeThemeRaised ==
    \E j \in 1..Len(stdout) : stdout[j].kind = "traceback"

DerivationRaises(theme_data) ==
    /\ "seeds" \in DOMAIN theme_data
    /\ ~derive_expected_colors(theme_data["seeds"],
                               Get(theme_data, "overrides")).ok

\* C1: in a batch run, a theme whose derivation fails to parse is recorded
\* as a failed report, every theme of the batch is still analysed and the
\* final summary is still printed.
BatchIsolation ==
    (pc = "exited" /\ theme_files # <<>>) =>
        /\ \A i \in 1..Len(theme_files) : Reported(i)
        /\ \A j \in ThemeBlocks :
              DerivationRaises(theme_files[stdout[j].theme].data)
                  => ~stdout[j].ok
        /\ stdout[Len(stdout)].kind = "summary"

\* C2 as stated: the exit status is non-zero iff some theme's analysis
\* returned failed.
ExitNonZeroIffThemeReturnedFailed ==
    pc = "exited" => ((exit_status # 0) <=> SomeThemeReturnedFailed)

\* C2, amended: the exit status is non-zero iff some theme's analysis
\* returned failed or raised, or no theme file was found; zero otherwise.
ExitNonZeroIffFailedRaisedOrNoThemes ==
    pc = "exited" =>
        /\ exit_status \in {0, 1}
        /\ (exit_status # 0) <=>
               (SomeThemeReturnedFailed \/ SomeThemeRaised
                \/ theme_files = <<>>)

ExitAfterFailedTheme ==
    /\ pc = "exited"
    /\ exit_status = 1
    /\ stdout[Len(stdout)].kind = "summary"
    /\ SomeThemeReturnedFailed
    /\ \E j \in ThemeBlocks : stdout[j].ok

----------------------------------------------------------------------------
(* Properties of analyze_theme, checked under SpecAnalyze *)

Matched == pc = "returned" /\ ret.val.stage = "matched"

Rendered == extract_rendered_colors(arg.snapshot.data)

\* The expected entries whose final distance is non-zero and above the
\* threshold, judged on the distances of the verdicts.
MissedNames ==
    {n \in DOMAIN ret.val.verdicts :
        /\ ret.val.verdicts[n].dist # 0
        /\ \/ ret.val.verdicts[n].dist = Inf
           \/ threshold < 0
           \/ ret.val.verdicts[n].dist > threshold * threshold}

\* C3: a theme that reaches the matching stage passes iff its core-missing
\* count is zero, i.e. iff no CORE name is a miss; WANT and INFO misses
\* never fail it.
PassIffNoCoreMiss ==
    Matched =>
        /\ ret.val.passed <=> (ret.val.missing_core = 0)
        /\ ret.val.missing_core = Cardinality(MissedNames \cap core_keys)
        /\ ret.val.missing_optional = Cardinality(MissedNames \ core_keys)
        /\ ret.val.passed <=> (MissedNames \cap core_keys = {})

PassesWithOptionalMisses ==
    /\ Matched
    /\ ret.val.passed
    /\ MissedNames \cap expected_keys # {}
    /\ MissedNames \ (core_keys \cup expected_keys) # {}

EmptyCapture ==
    /\ "seeds" \in DOMAIN arg.theme_data
    /\ arg.snapshot.exists
    /\ Rendered.fg = {}
    /\ Rendered.bg = {}

\* C4: when the capture yields no colour at all, the theme is reported
\* failed whatever its seeds and overrides are: the call never returns a
\* pass, and returns failed whenever the derivation succeeds.
EmptyCaptureFails ==
    (pc \in {"returned", "raised"} /\ EmptyCapture) =>
        /\ ret.ok => ~ret.val.passed
        /\ derive_expected_colors(
               arg.theme_data["seeds"],
               IF "overrides" \in DOMAIN arg.theme_data
               THEN arg.theme_data["overrides"] ELSE None).ok
           => (ret.ok /\ ~ret.val.passed)

EmptyCaptureReported ==
    /\ pc = "returned"
    /\ EmptyCapture
    /\ "overrides" \in DOMAIN arg.theme_data
    /\ ~ret.val.passed

ExampleRun ==
    /\ pc = "returned"
    /\ arg.theme_data = ( "seeds" :> ExampleSeeds )
    /\ Rendered.fg = {Rgb(26, 26, 26)}
    /\ Rendered.bg = {Rgb(26, 26, 26)}
    /\ threshold = 30

\* C7 as stated: on the worked example the theme fails, the CORE entries
\* foreground, panel_bg, muted and diff.context_bg are all misses and the
\* core-missing count is 4.
ExampleFourCoreMisses ==
    ExampleRun =>
        /\ ~ret.val.passed
        /\ {"foreground", "panel_bg", "muted", "diff.context_bg"}
               \subseteq MissedNames
        /\ ret.val.missing_core = 4

\* C7, amended: on the worked example the theme fails, the CORE misses are
\* exactly foreground and muted, panel_bg is a close match, background and
\* diff.context_bg are exact, and the core-missing count is 2.
ExampleTwoCoreMisses ==
    ExampleRun =>
        /\ ~ret.val.passed
        /\ MissedNames \cap core_keys = {"foreground", "muted"}
        /\ ret.val.verdicts["panel_bg"].dist = 243
        /\ ret.val.verdicts["panel_bg"].class = "close"
        /\ ret.val.verdicts["diff.context_bg"].dist = 0
        /\ ret.val.verdicts["background"].dist = 0
        /\ ret.val.missing_core = 2
        /\ ret.val.messages[1].kind = "FAIL"

ExampleAnalysed == ExampleRun /\ Matched

\* Some rendered colour, of either role, lies within the threshold of c.
RenderedWithin(c) ==
    \E x \in Rendered.fg \cup Rendered.bg :
        /\ threshold >= 0
        /\ distance2(c, x) <= threshold * threshold

\* d <= e on squared distances
DistAtMost(d, e) == e = Inf \/ (d # Inf /\ d <= e)

MissIffNothingWithin ==
    \A n \in DOMAIN ret.val.verdicts :
        /\ (ret.val.verdicts[n].class = "miss")
               <=> ~RenderedWithin(ret.val.expected[n])
        /\ (n \in MissedNames) <=> ~RenderedWithin(ret.val.expected[n])
        /\ DistAtMost(ret.val.verdicts[n].dist,
                      ret.val.verdicts[n].primary_dist)

\* C9 as stated: for every threshold, an entry is a miss iff no rendered
\* colour of either role lies within the threshold of it, and the distance
\* after the fallback is never larger than the primary distance.
MissIffNothingWithinAnyThreshold == Matched => MissIffNothingWithin

\* C9, amended: the same for every threshold >= 0.
MissIffNothingWithinNonNegative ==
    (Matched /\ threshold >= 0) => MissIffNothingWithin

\* An entry rendered only in the other role's set is rescued by the fallback.
RescuedByFallback ==
    /\ Matched
    /\ threshold >= 0
    /\ \E n \in DOMAIN ret.val.verdicts :
          /\ ret.val.verdicts[n].class # "miss"
          /\ ret.val.verdicts[n].primary_dist # ret.val.verdicts[n].dist

Distances(r) == [n \in DOMAIN r.verdicts |-> r.verdicts[n].dist]

Classes(r) == [n \in DOMAIN r.verdicts |-> r.verdicts[n].class]

\* What analyze_theme returns under every other iteration order.
OtherRuns ==
    {analyze_theme(arg.theme_data, arg.snapshot, threshold, order).val :
        order \in IterationOrders(arg.snapshot)}

\* C10: the iteration order of the rendered sets changes neither the
\* per-entry distances and classes, nor the counts, nor pass/fail.
VerdictIndependentOfOrder ==
    Matched =>
        \A other \in OtherRuns :
            /\ Distances(other) = Distances(ret.val)
            /\ Classes(other) = Classes(ret.val)
            /\ other.found = ret.val.found
            /\ other.close_count = ret.val.close_count
            /\ other.missing_core = ret.val.missing_core
            /\ other.missing_optional = ret.val.missing_optional
            /\ other.passed = ret.val.passed
            /\ other.messages[1] = ret.val.messages[1]

\* Two orders break a tie differently: only the reported nearest differs.
TieBrokenDifferently ==
    /\ Matched
    /\ \E other \in OtherRuns : other.verdicts # ret.val.verdicts

----------------------------------------------------------------------------
(* Properties of derive_expected_colors, checked under SpecDerive *)

DerivedNames ==
    {"panel_bg", "selection_bg", "border", "diff.added", "diff.removed",
     "diff.context", "diff.hunk_header", "diff.highlight_added",
     "diff.highlight_removed", "diff.added_bg", "diff.removed_bg",
     "diff.context_bg", "diff.line_number", "diff.added_ln_bg",
     "diff.removed_ln_bg"}

AllSyntaxNames ==
    {"syntax.syntaxKeyword", "syntax.syntaxFunction",
     "syntax.syntaxTypeName", "syntax.syntaxString", "syntax.syntaxNumber",
     "syntax.syntaxComment", "syntax.syntaxOperator",
     "syntax.syntaxPunctuation", "syntax.syntaxVariable",
     "syntax.syntaxConstant", "syntax.syntaxAttribute",
     "syntax.keyword", "syntax.function", "syntax.type_name",
     "syntax.string", "syntax.number", "syntax.comment", "syntax.operator",
     "syntax.punctuation", "syntax.variable", "syntax.constant",
     "syntax.attribute"}

NoOverridesCall ==
    /\ pc = "returned"
    /\ arg.overrides = None
    /\ DOMAIN arg.seeds = SeedKeySet

\* C5 as stated: all seven seeds and no overrides give exactly 21 entries,
\* the 7 seeds plus 14 derived ones, none of them a syntax entry.
NoOverridesGives21 ==
    NoOverridesCall =>
        /\ Cardinality(DOMAIN ret.val) = 21
        /\ SeedKeySet \subseteq DOMAIN ret.val
        /\ Cardinality(DOMAIN ret.val \ SeedKeySet) = 14
        /\ DOMAIN ret.val \cap AllSyntaxNames = {}

\* C5, amended: all seven seeds and no overrides give exactly 22 entries,
\* the 7 seeds (each the parsed seed) plus the 15 derived ones, none of them
\* a syntax entry.
NoOverridesGives22 ==
    NoOverridesCall =>
        /\ Cardinality(DOMAIN ret.val) = 22
        /\ DOMAIN ret.val = SeedKeySet \cup DerivedNames
        /\ Cardinality(DerivedNames) = 15
        /\ SeedKeySet \cap DerivedNames = {}
        /\ \A k \in SeedKeySet : ret.val[k] = from_hex(arg.seeds[k]).val
        /\ DOMAIN ret.val \cap AllSyntaxNames = {}

NoOverridesDerived == NoOverridesCall /\ arg.seeds # ExampleSeeds

\* The role the specification names a syntax override by.
SyntaxRole(key) ==
    CASE key = "syntaxKeyword" -> "keyword"
      [] key = "syntaxString" -> "string"

SyntaxKeysUsed == {"syntaxKeyword", "syntaxString"}

Supplied(key) ==
    /\ arg.overrides # None
    /\ key \in DOMAIN arg.overrides
    /\ arg.overrides[key] # None
    /\ arg.overrides[key] # <<>>

\* The call with the override key left out.
Without(key) ==
    derive_expected_colors(
        arg.seeds,
        IF arg.overrides # None /\ key \in DOMAIN arg.overrides
        THEN Restrict(arg.overrides, DOMAIN arg.overrides \ {key})
        ELSE arg.overrides)

\* Supplying key adds the one entry name with the override's colour and
\* changes nothing else; leaving it out, or empty, adds no such entry.
AddsExactlyEntry(key, name) ==
    IF Supplied(key)
    THEN /\ name \notin DOMAIN Without(key).val
         /\ DOMAIN ret.val = DOMAIN Without(key).val \cup {name}
         /\ ret.val[name] = from_hex(arg.overrides[key]).val
         /\ \A n \in DOMAIN Without(key).val : ret.val[n] = Without(key).val[n]
    ELSE /\ name \notin DOMAIN ret.val
         /\ ret.val = Without(key).val

\* C6 as stated: a non-empty syntax override adds exactly one entry, under
\* syntax.<role> (syntax.keyword for the keyword role), with the override's
\* colour; no other entry changes; omitting it adds none.
SyntaxOverrideAddsRoleEntry ==
    pc = "returned" =>
        \A key \in SyntaxKeysUsed :
            AddsExactlyEntry(key, "syntax." \o SyntaxRole(key))

\* C6, amended: the entry is added under syntax.<override key>
\* (syntax.syntaxKeyword for the keyword role).
SyntaxOverrideAddsKeyEntry ==
    pc = "returned" =>
        \A key \in SyntaxKeysUsed : AddsExactlyEntry(key, "syntax." \o key)

SyntaxOverrideSupplied ==
    /\ pc = "returned"
    /\ Supplied("syntaxKeyword")
    /\ "syntax.syntaxKeyword" \in DOMAIN ret.val
    /\ "panelBg" \in DOMAIN arg.overrides

----------------------------------------------------------------------------
(* Properties of Rgb.from_hex, checked under SpecHex *)

\* After an optional single leading '#', exactly six hex digits.
WellFormedHex(h) ==
    LET body == IF h # <<>> /\ Head(h) = "#" THEN Tail(h) ELSE h
    IN  /\ Len(body) = 6
        /\ \A i \in 1..Len(body) : IsHexDigit(body[i])

\* C8: from_hex raises on every malformed string and returns a colour only
\* for a well-formed one.
FromHexRejectsMalformed ==
    pc \in {"returned", "raised"} => (ret.ok <=> WellFormedHex(arg))

====
